---- MODULE Spec2Model ----
(***************************************************************************)
(* The game state-transition engine of src/main.ts: the State value, the   *)
(* ActionForKey classes folded over it by scan (lines 799-801), collision  *)
(* detection, placement, line clearing and the piece generator.            *)
(*                                                                         *)
(* Arrays are 0-based in the source and 1-based here: the cell the source  *)
(* reads as grid[y][x] is grid[y + 1][x + 1].  Block coordinates keep the  *)
(* source's 0-based values.                                                *)
(***************************************************************************)
EXTENDS Integers, Sequences, FiniteSets, TLC

VARIABLES s, initialState, threw, last, landings, rolls, call, s2, threw2, rendered

vars == <<s, initialState, threw, last, landings, rolls, call, s2, threw2, rendered>>

(***************************************************************************)
(* Program constants.                                                      *)
(***************************************************************************)
GRID_WIDTH == 10
GRID_HEIGHT == 20

(***************************************************************************)
(* Bounds of the exploration.                                              *)
(***************************************************************************)
\* landing sequences (processCollision past its pause check) explored in a
\* run; none is explored after a Restart, which empties the grid.
MaxLandings == 2

\* the rows and the columns of the grids that the pure functions are
\* called with directly
MaxRows == 4

MaxCols == 2

\* the frames handed to render that a run of the two subscriptions records
MaxFrames == 3

\* the results of the two Math.random() calls of generateANewTetrimino
\* that are explored, as <<shapeIndex, randomChance>>
Rolls == { <<0, 6>> }

(***************************************************************************)
(* Helpers.                                                                *)
(***************************************************************************)
Max(a, b) == IF a >= b THEN a ELSE b

(***************************************************************************)
(* Blocks, pieces and the grid.                                            *)
(***************************************************************************)
Blk(x, y, color) == [x |-> x, y |-> y, color |-> color]

emptyRow(length) == [i \in 1..length |-> FALSE]

EmptyGrid == [r \in 1..20 |-> emptyRow(10)]

\* The module-level template handed to clearLines (lines 97-100).
goldTetrimino == << Blk(0, 0, "gold") >>

\* The catalogue of generateANewTetrimino (lines 553-603), 0-based index.
shapes(i) ==
  CASE i = 0 -> << Blk(0, 0, "cyan"), Blk(0, 1, "cyan"), Blk(0, 2, "cyan"), Blk(0, 3, "cyan") >>
    [] i = 1 -> << Blk(0, 0, "yellow"), Blk(1, 0, "yellow"), Blk(0, 1, "yellow"), Blk(1, 1, "yellow") >>
    [] i = 2 -> << Blk(1, 0, "blue"), Blk(2, 0, "blue"), Blk(0, 1, "blue"), Blk(1, 1, "blue") >>
    [] i = 3 -> << Blk(0, 0, "green"), Blk(1, 0, "green"), Blk(1, 1, "green"), Blk(2, 1, "green") >>
    [] i = 4 -> << Blk(0, 0, "orange"), Blk(0, 1, "orange"), Blk(0, 2, "orange"), Blk(1, 2, "orange") >>
    [] i = 5 -> << Blk(0, 0, "red"), Blk(0, 1, "red"), Blk(0, 2, "red"), Blk(1, 2, "red") >>
    [] OTHER -> << Blk(1, 0, "purple"), Blk(0, 1, "purple"), Blk(1, 1, "purple"), Blk(2, 1, "purple") >>

xOffset == (GRID_WIDTH - 2) \div 2

x2Offset == (GRID_WIDTH - 10) \div 2

yOffset == 0

Shift(t, dx, dy) == [i \in 1..Len(t) |-> [t[i] EXCEPT !.x = @ + dx, !.y = @ + dy]]

\* generateANewTetrimino (lines 552-642) for the two Math.random() results:
\* shapeIndex = floor(random * 7), randomChance = floor(random * 101).
generateANewTetrimino(shapeIndex, randomChance) ==
  IF randomChance <= 5
  THEN Shift(<< Blk(xOffset + 0, 0, "gold"), Blk(xOffset + 0, 1, "gold"),
                Blk(xOffset + 1, 1, "gold"), Blk(xOffset + 1, 2, "gold") >>,
             x2Offset, yOffset)
  ELSE Shift(shapes(shapeIndex), xOffset, yOffset)

\* Every piece a call of generateANewTetrimino returns in the run: rolls is
\* the set of Math.random() results the run explores.
Generated == { generateANewTetrimino(r[1], r[2]) : r \in rolls }

(***************************************************************************)
(* isCollisionDetected (lines 121-125).  Array.some visits the blocks in   *)
(* order and stops at the first truthy one.  grid[block.y] is undefined    *)
(* for a negative row, and indexing undefined throws a TypeError; a column *)
(* outside the row reads undefined, which is falsy.                        *)
(***************************************************************************)
BlockOutcome(block, grid) ==
  IF block.y >= GRID_HEIGHT THEN "true"
  ELSE IF block.y < 0 \/ block.y >= Len(grid) THEN "throw"
  ELSE IF block.x >= 0 /\ block.x < Len(grid[block.y + 1]) /\ grid[block.y + 1][block.x + 1]
       THEN "true"
       ELSE "false"

\* Array.some: the outcome of the first block that is not falsy
SomeOutcome(t, grid) ==
  LET stops == { i \in 1..Len(t) : BlockOutcome(t[i], grid) # "false" }
  IN IF stops = { } THEN "false"
     ELSE BlockOutcome(t[CHOOSE i \in stops : \A j \in stops : i <= j], grid)

CollisionOutcome(t, grid) == SomeOutcome(t, grid)

isCollisionDetected(t, grid) == CollisionOutcome(t, grid) = "true"

CollisionThrows(t, grid) == CollisionOutcome(t, grid) = "throw"

(***************************************************************************)
(* placeTetrimino (lines 437-460): every cell whose row index equals a     *)
(* block's y and whose column index equals its x becomes true; a block     *)
(* outside the grid matches no cell.                                       *)
(***************************************************************************)
placeTetrimino(tetrimino, grid) ==
  [r \in 1..Len(grid) |->
    [c \in 1..Len(grid[r]) |->
      grid[r][c] \/ \E i \in 1..Len(tetrimino) :
                       tetrimino[i].y = r - 1 /\ tetrimino[i].x = c - 1]]

(***************************************************************************)
(* clearLines (lines 471-507): a reduce over the rows, top to bottom.  The *)
(* accumulator keeps the rows that are not complete, in order, and counts  *)
(* the complete ones, so its linesCleared when the reduce visits row i is  *)
(* the number of complete rows above row i.                                *)
(***************************************************************************)
RowComplete(row) == \A c \in 1..Len(row) : row[c]

\* line 483, evaluated with the linesCleared of the state before this row
RowGold(row, gold, linesCleared) ==
  \E x \in 0..(Len(row) - 1) :
     \E i \in 1..Len(gold) : gold[i].x = x /\ gold[i].y = linesCleared

\* the result of the reduce (lines 479-497)
clearLinesReduce(grid, gold) ==
  LET complete == { i \in 1..Len(grid) : RowComplete(grid[i]) }
      above(i) == Cardinality({ j \in complete : j < i })
  IN [grid |-> SelectSeq(grid, LAMBDA row : ~RowComplete(row)),
      linesCleared |-> Cardinality(complete),
      goldLineCleared |-> \E i \in complete : RowGold(grid[i], gold, above(i))]

\* clearLines without the empty rows of line 500
clearLinesNoEmptyRows(grid, gold) ==
  LET result == clearLinesReduce(grid, gold)
  IN [grid |-> result.grid,
      linesCleared |-> result.linesCleared,
      goldLineCleared |-> result.goldLineCleared]

\* clearLines with the empty rows of line 500 put below the kept rows
clearLinesEmptyRowsBelow(grid, gold) ==
  LET result == clearLinesReduce(grid, gold)
      emptyRows == [k \in 1..result.linesCleared |-> emptyRow(Len(grid[1]))]
  IN [grid |-> result.grid \o emptyRows,
      linesCleared |-> result.linesCleared,
      goldLineCleared |-> result.goldLineCleared]

\* clearLines with the complete rows counted but left in the grid
clearLinesKeepsRows(grid, gold) ==
  LET result == clearLinesReduce(grid, gold)
  IN [grid |-> grid,
      linesCleared |-> result.linesCleared,
      goldLineCleared |-> result.goldLineCleared]

clearLines(grid, gold) ==
  LET result == clearLinesReduce(grid, gold)
      emptyRows == [k \in 1..result.linesCleared |-> emptyRow(Len(grid[1]))]
  IN [grid |-> emptyRows \o result.grid,
      linesCleared |-> result.linesCleared,
      goldLineCleared |-> result.goldLineCleared]

(***************************************************************************)
(* processCollision (lines 133-175).  The piece generated at line 160 is   *)
(* never stored: the playing branch stores newTetrimino in both piece      *)
(* fields, the game-over branch spreads s.                                 *)
(***************************************************************************)
\* processCollision with the bonus counted over the whole template, without
\* the filter of line 147
processCollisionWholeTemplate(st) ==
  IF st.paused THEN st
  ELSE
    LET newGrid == placeTetrimino(st.currentTetrimino, st.grid)
        cl == clearLines(newGrid, goldTetrimino)
        newScore == st.userScore + cl.linesCleared * 100
        goldScoreIncrease == IF cl.goldLineCleared THEN Len(goldTetrimino) * 200 ELSE 0
        newHighScore == Max(st.highScore, newScore + goldScoreIncrease)
        newLevel == (newScore \div 1000) + 1
        newTetrimino == st.nextTetrimino
    IN IF isCollisionDetected(newTetrimino, cl.grid)
       THEN [st EXCEPT !.gameOver = TRUE,
                       !.userScore = newScore + goldScoreIncrease,
                       !.highScore = newHighScore]
       ELSE [grid |-> cl.grid,
             currentTetrimino |-> newTetrimino,
             nextTetrimino |-> newTetrimino,
             gameOver |-> FALSE,
             userScore |-> newScore + goldScoreIncrease,
             userLevel |-> newLevel,
             highScore |-> newHighScore,
             paused |-> st.paused]

\* processCollision with the promoted piece tested on the grid of before
\* the landing
processCollisionTestsPriorGrid(st) ==
  IF st.paused THEN st
  ELSE
    LET newGrid == placeTetrimino(st.currentTetrimino, st.grid)
        cl == clearLines(newGrid, goldTetrimino)
        newScore == st.userScore + cl.linesCleared * 100
        goldLines == SelectSeq(goldTetrimino, LAMBDA block : block.y = cl.linesCleared - 1)
        goldScoreIncrease == IF cl.goldLineCleared THEN Len(goldLines) * 200 ELSE 0
        newHighScore == Max(st.highScore, newScore + goldScoreIncrease)
        newLevel == (newScore \div 1000) + 1
        newTetrimino == st.nextTetrimino
    IN IF isCollisionDetected(newTetrimino, st.grid)
       THEN [st EXCEPT !.gameOver = TRUE,
                       !.userScore = newScore + goldScoreIncrease,
                       !.highScore = newHighScore]
       ELSE [grid |-> cl.grid,
             currentTetrimino |-> newTetrimino,
             nextTetrimino |-> newTetrimino,
             gameOver |-> FALSE,
             userScore |-> newScore + goldScoreIncrease,
             userLevel |-> newLevel,
             highScore |-> newHighScore,
             paused |-> st.paused]

\* processCollision without the test of the promoted piece at line 163
processCollisionNeverEnds(st) ==
  IF st.paused THEN st
  ELSE
    LET newGrid == placeTetrimino(st.currentTetrimino, st.grid)
        cl == clearLines(newGrid, goldTetrimino)
        newScore == st.userScore + cl.linesCleared * 100
        goldLines == SelectSeq(goldTetrimino, LAMBDA block : block.y = cl.linesCleared - 1)
        goldScoreIncrease == IF cl.goldLineCleared THEN Len(goldLines) * 200 ELSE 0
        newHighScore == Max(st.highScore, newScore + goldScoreIncrease)
        newLevel == (newScore \div 1000) + 1
        newTetrimino == st.nextTetrimino
    IN IF FALSE
       THEN [st EXCEPT !.gameOver = TRUE,
                       !.userScore = newScore + goldScoreIncrease,
                       !.highScore = newHighScore]
       ELSE [grid |-> cl.grid,
             currentTetrimino |-> newTetrimino,
             nextTetrimino |-> newTetrimino,
             gameOver |-> FALSE,
             userScore |-> newScore + goldScoreIncrease,
             userLevel |-> newLevel,
             highScore |-> newHighScore,
             paused |-> st.paused]

\* processCollision with the high score of line 151 taken from the score
\* without the bonus
processCollisionHighScoreNoBonus(st) ==
  IF st.paused THEN st
  ELSE
    LET newGrid == placeTetrimino(st.currentTetrimino, st.grid)
        cl == clearLines(newGrid, goldTetrimino)
        newScore == st.userScore + cl.linesCleared * 100
        goldLines == SelectSeq(goldTetrimino, LAMBDA block : block.y = cl.linesCleared - 1)
        goldScoreIncrease == IF cl.goldLineCleared THEN Len(goldLines) * 200 ELSE 0
        newHighScore == Max(st.highScore, newScore)
        newLevel == (newScore \div 1000) + 1
        newTetrimino == st.nextTetrimino
    IN IF isCollisionDetected(newTetrimino, cl.grid)
       THEN [st EXCEPT !.gameOver = TRUE,
                       !.userScore = newScore + goldScoreIncrease,
                       !.highScore = newHighScore]
       ELSE [grid |-> cl.grid,
             currentTetrimino |-> newTetrimino,
             nextTetrimino |-> newTetrimino,
             gameOver |-> FALSE,
             userScore |-> newScore + goldScoreIncrease,
             userLevel |-> newLevel,
             highScore |-> newHighScore,
             paused |-> st.paused]

\* processCollision without the pause check of lines 135-137
processCollisionIgnoresPause(st) ==
  IF FALSE THEN st
  ELSE
    LET newGrid == placeTetrimino(st.currentTetrimino, st.grid)
        cl == clearLines(newGrid, goldTetrimino)
        newScore == st.userScore + cl.linesCleared * 100
        goldLines == SelectSeq(goldTetrimino, LAMBDA block : block.y = cl.linesCleared - 1)
        goldScoreIncrease == IF cl.goldLineCleared THEN Len(goldLines) * 200 ELSE 0
        newHighScore == Max(st.highScore, newScore + goldScoreIncrease)
        newLevel == (newScore \div 1000) + 1
        newTetrimino == st.nextTetrimino
    IN IF isCollisionDetected(newTetrimino, cl.grid)
       THEN [st EXCEPT !.gameOver = TRUE,
                       !.userScore = newScore + goldScoreIncrease,
                       !.highScore = newHighScore]
       ELSE [grid |-> cl.grid,
             currentTetrimino |-> newTetrimino,
             nextTetrimino |-> newTetrimino,
             gameOver |-> FALSE,
             userScore |-> newScore + goldScoreIncrease,
             userLevel |-> newLevel,
             highScore |-> newHighScore,
             paused |-> st.paused]

processCollision(st) ==
  IF st.paused THEN st
  ELSE
    LET newGrid == placeTetrimino(st.currentTetrimino, st.grid)
        cl == clearLines(newGrid, goldTetrimino)
        newScore == st.userScore + cl.linesCleared * 100
        goldLines == SelectSeq(goldTetrimino, LAMBDA block : block.y = cl.linesCleared - 1)
        goldScoreIncrease == IF cl.goldLineCleared THEN Len(goldLines) * 200 ELSE 0
        newHighScore == Max(st.highScore, newScore + goldScoreIncrease)
        newLevel == (newScore \div 1000) + 1
        newTetrimino == st.nextTetrimino
    IN IF isCollisionDetected(newTetrimino, cl.grid)
       THEN [st EXCEPT !.gameOver = TRUE,
                       !.userScore = newScore + goldScoreIncrease,
                       !.highScore = newHighScore]
       ELSE [grid |-> cl.grid,
             currentTetrimino |-> newTetrimino,
             nextTetrimino |-> newTetrimino,
             gameOver |-> FALSE,
             userScore |-> newScore + goldScoreIncrease,
             userLevel |-> newLevel,
             highScore |-> newHighScore,
             paused |-> st.paused]

\* the TypeError of isCollisionDetected at line 163
processCollisionThrows(st) ==
  /\ ~st.paused
  /\ CollisionThrows(st.nextTetrimino,
       clearLines(placeTetrimino(st.currentTetrimino, st.grid), goldTetrimino).grid)

\* linesCleared of the landing sequence run on st (0 when paused)
LandingLines(st) ==
  IF st.paused THEN 0
  ELSE clearLines(placeTetrimino(st.currentTetrimino, st.grid), goldTetrimino).linesCleared

(***************************************************************************)
(* The apply methods of the ActionForKey classes, as functions of the      *)
(* state and of the piece the handler's own generateANewTetrimino call     *)
(* returns.  Each has a companion saying when the handler throws.          *)
(***************************************************************************)
Left(t) == Shift(t, -1, 0)

Right(t) == Shift(t, 1, 0)

Down(t) == Shift(t, 0, 1)

Up(t) == Shift(t, 0, -1)

\* moveTetriminoLeft.apply without the wall check of line 195
moveTetriminoLeftNoWall(st) ==
  LET newTetrimino == Left(st.currentTetrimino)
  IN IF isCollisionDetected(newTetrimino, st.grid)
     THEN st
     ELSE [st EXCEPT !.currentTetrimino = newTetrimino]

\* moveTetriminoLeft.apply (lines 187-204)
moveTetriminoLeft(st) ==
  LET newTetrimino == Left(st.currentTetrimino)
      isLeftCollision == \E i \in 1..Len(newTetrimino) : newTetrimino[i].x < 0
      isGridCollision == isCollisionDetected(newTetrimino, st.grid)
  IN IF isLeftCollision \/ isGridCollision
     THEN st
     ELSE [st EXCEPT !.currentTetrimino = newTetrimino]

moveTetriminoLeftThrows(st) == CollisionThrows(Left(st.currentTetrimino), st.grid)

\* moveTetriminoRight.apply without the wall check of line 222
moveTetriminoRightNoWall(st) ==
  LET newTetrimino == Right(st.currentTetrimino)
  IN IF isCollisionDetected(newTetrimino, st.grid)
     THEN st
     ELSE [st EXCEPT !.currentTetrimino = newTetrimino]

\* moveTetriminoRight.apply (lines 214-233)
moveTetriminoRight(st) ==
  LET newTetrimino == Right(st.currentTetrimino)
      isRightCollision == \E i \in 1..Len(newTetrimino) : newTetrimino[i].x >= GRID_WIDTH
      isGridCollision == isCollisionDetected(newTetrimino, st.grid)
  IN IF isRightCollision \/ isGridCollision
     THEN st
     ELSE [st EXCEPT !.currentTetrimino = newTetrimino]

moveTetriminoRightThrows(st) == CollisionThrows(Right(st.currentTetrimino), st.grid)

\* moveTetriminoDown.apply without the landing: a piece that cannot descend
\* stays in play
moveTetriminoDownNeverLands(st, nextTetrimino) ==
  LET newTetrimino == Down(st.currentTetrimino)
      isGridCollision == isCollisionDetected(newTetrimino, st.grid)
  IN IF isGridCollision
     THEN [st EXCEPT !.nextTetrimino = nextTetrimino]
     ELSE [st EXCEPT !.currentTetrimino = newTetrimino, !.nextTetrimino = nextTetrimino]

\* moveTetriminoDown.apply with the generated piece put in play on a landing
moveTetriminoDownPlaysGenerated(st, nextTetrimino) ==
  LET newTetrimino == Down(st.currentTetrimino)
      isGridCollision == isCollisionDetected(newTetrimino, st.grid)
  IN IF isGridCollision
     THEN [processCollision(st) EXCEPT !.currentTetrimino = nextTetrimino,
                                       !.nextTetrimino = nextTetrimino]
     ELSE [st EXCEPT !.currentTetrimino = newTetrimino, !.nextTetrimino = nextTetrimino]

\* moveTetriminoDown.apply (lines 244-261)
moveTetriminoDown(st, nextTetrimino) ==
  LET newTetrimino == Down(st.currentTetrimino)
      isGridCollision == isCollisionDetected(newTetrimino, st.grid)
  IN IF isGridCollision
     THEN [processCollision(st) EXCEPT !.nextTetrimino = nextTetrimino]
     ELSE [st EXCEPT !.currentTetrimino = newTetrimino, !.nextTetrimino = nextTetrimino]

\* rotateTetrimino with the sign of the row offset of line 277 reversed
rotateTetriminoMirrored(tetrimino) ==
  LET origin == tetrimino[1]
  IN [i \in 1..Len(tetrimino) |->
        [x |-> origin.x - (tetrimino[i].y - origin.y),
         y |-> origin.y - (tetrimino[i].x - origin.x),
         color |-> tetrimino[i].color]]

\* rotateTetrimino turning by a half turn: both offsets reversed
rotateTetriminoHalfTurn(tetrimino) ==
  LET origin == tetrimino[1]
  IN [i \in 1..Len(tetrimino) |->
        [x |-> origin.x - (tetrimino[i].x - origin.x),
         y |-> origin.y - (tetrimino[i].y - origin.y),
         color |-> tetrimino[i].color]]

\* rotateTetrimino (lines 270-281)
rotateTetrimino(tetrimino) ==
  LET origin == tetrimino[1]
  IN [i \in 1..Len(tetrimino) |->
        [x |-> origin.x - (tetrimino[i].y - origin.y),
         y |-> origin.y + (tetrimino[i].x - origin.x),
         color |-> tetrimino[i].color]]

\* willExceedEdges (lines 313-323)
willExceedEdges(tetrimino, grid) ==
  LET gridWidth == Len(grid[1])
      gridHeight == Len(grid)
  IN \E i \in 1..Len(tetrimino) :
        tetrimino[i].x < 0 \/ tetrimino[i].x >= gridWidth \/ tetrimino[i].y >= gridHeight

\* Rotate.apply (lines 291-303)
RotateApply(st) ==
  LET rotatedTetrimino == rotateTetrimino(st.currentTetrimino)
      isGridCollision == isCollisionDetected(rotatedTetrimino, st.grid)
      willExceedEdgesCondition == willExceedEdges(rotatedTetrimino, st.grid)
  IN IF isGridCollision \/ willExceedEdgesCondition
     THEN st
     ELSE [st EXCEPT !.currentTetrimino = rotatedTetrimino]

RotateThrows(st) == CollisionThrows(rotateTetrimino(st.currentTetrimino), st.grid)

\* the while loop of instantDROP.apply (lines 341-343): the piece moves
\* down a row as long as isCollisionDetected returns false, so it ends the
\* least number of rows down at which the call returns true or throws; a
\* block that is GRID_HEIGHT rows down or more is at a row >= GRID_HEIGHT
\* or above the grid
DropLoop(t, grid) ==
  LET ends(k) == CollisionOutcome(Shift(t, 0, k), grid) # "false"
  IN Shift(t, 0, CHOOSE k \in 0..GRID_HEIGHT : ends(k) /\ \A j \in 0..(k - 1) : ~ends(j))

\* instantDROP.apply with the piece held where it is while the game is paused
instantDROPHeldWhilePaused(st, nextTetrimino) ==
  LET newTetrimino == Up(DropLoop(st.currentTetrimino, st.grid))
  IN IF st.paused
     THEN [st EXCEPT !.nextTetrimino = nextTetrimino]
     ELSE IF isCollisionDetected(newTetrimino, st.grid)
          THEN [processCollision(st) EXCEPT !.nextTetrimino = nextTetrimino]
          ELSE [st EXCEPT !.currentTetrimino = newTetrimino, !.nextTetrimino = nextTetrimino]

\* instantDROP.apply (lines 337-355)
instantDROP(st, nextTetrimino) ==
  LET newTetrimino == Up(DropLoop(st.currentTetrimino, st.grid))
  IN IF isCollisionDetected(newTetrimino, st.grid)
     THEN [processCollision(st) EXCEPT !.nextTetrimino = nextTetrimino]
     ELSE [st EXCEPT !.currentTetrimino = newTetrimino, !.nextTetrimino = nextTetrimino]

\* Restart.apply without the highScore of line 376
RestartApplyNoHighScore(st, initial) == initial

\* Restart.apply (lines 374-377): the module constant initialState, spread
RestartApply(st, initial) == [initial EXCEPT !.highScore = st.highScore]

\* TogglePauseResume.apply (lines 388-397); isPaused is the field of the
\* instance the action is applied through
TogglePauseResumeApply(st, isPaused) ==
  IF ~isPaused THEN [st EXCEPT !.paused = TRUE]
  ELSE [st EXCEPT !.paused = FALSE]

\* Tick.apply (lines 412-427)
TickApply(st, nextTetrimino) ==
  LET movedTetrimino == Down(st.currentTetrimino)
  IN IF isCollisionDetected(movedTetrimino, st.grid)
     THEN [processCollision(st) EXCEPT !.nextTetrimino = nextTetrimino]
     ELSE [st EXCEPT !.currentTetrimino = movedTetrimino, !.nextTetrimino = nextTetrimino]

\* Tick.apply, moveTetriminoDown.apply: the throwing calls of lines 417/252
\* and 163
DescendThrows(st) ==
  \/ CollisionThrows(Down(st.currentTetrimino), st.grid)
  \/ /\ isCollisionDetected(Down(st.currentTetrimino), st.grid)
     /\ processCollisionThrows(st)

\* instantDROP.apply: the throwing calls of lines 341, 348 and 163
instantDROPThrows(st) ==
  LET dropped == DropLoop(st.currentTetrimino, st.grid)
  IN \/ CollisionThrows(dropped, st.grid)
     \/ CollisionThrows(Up(dropped), st.grid)
     \/ /\ isCollisionDetected(Up(dropped), st.grid)
        /\ processCollisionThrows(st)

\* the handler takes its collision branch and processCollision passes its
\* pause check
DescendLands(st) ==
  isCollisionDetected(Down(st.currentTetrimino), st.grid) /\ ~st.paused

instantDROPLands(st) ==
  isCollisionDetected(Up(DropLoop(st.currentTetrimino, st.grid)), st.grid) /\ ~st.paused

(***************************************************************************)
(* The state machine.  s is the accumulator of scan (line 800),            *)
(* initialState the module constant of lines 82-91, threw records that an  *)
(* apply threw, which errors the stream: no later action is applied.       *)
(* last describes the latest action: whether it ran the landing sequence,  *)
(* the lines that cleared, the generateANewTetrimino calls it made.        *)
(* landings counts the landing sequences of the run.  rolls is fixed by    *)
(* Init.  call, s2, threw2 and rendered belong to the specifications       *)
(* further down (direct calls of the pure functions, the second            *)
(* subscription of state$); the game actions leave them alone.             *)
(***************************************************************************)
NoCall == [fn |-> "none"]

State(grid, currentTetrimino, nextTetrimino) ==
  [grid |-> grid,
   currentTetrimino |-> currentTetrimino,
   nextTetrimino |-> nextTetrimino,
   gameOver |-> FALSE,
   userScore |-> 0,
   userLevel |-> 1,
   highScore |-> 0,
   paused |-> FALSE]

Did(landed, lines, gen) == [landed |-> landed, lines |-> lines, gen |-> gen]

\* The opening played from the constructed state: four cyan pieces dropped
\* in every column but the spawn column, which leaves a well there and the
\* top four rows free.  Each piece is moved to its column, dropped by
\* instantDROP and landed by the next Tick.
Cyan == generateANewTetrimino(0, 6)

OpeningColumns ==
  << 0, 0, 0, 0, 1, 1, 1, 1, 2, 2, 2, 2, 3, 3, 3, 3, 5, 5, 5, 5,
     6, 6, 6, 6, 7, 7, 7, 7, 8, 8, 8, 8, 9, 9, 9, 9 >>

RECURSIVE MoveTo(_, _)
MoveTo(st, col) ==
  IF st.currentTetrimino[1].x > col THEN MoveTo(moveTetriminoLeft(st), col)
  ELSE IF st.currentTetrimino[1].x < col THEN MoveTo(moveTetriminoRight(st), col)
  ELSE st

\* one piece of the opening: to its column, dropped, landed by the Tick
PlayPiece(st, col, g1, g2) ==
  TickApply(instantDROP(MoveTo(st, col), g1), g2)

\* A plan is a sequence of entries <<column, flat>>: the column the first
\* block of the piece is moved to, and whether the piece is rotated flat
\* before it is moved.
Upright(cols) == [i \in 1..Len(cols) |-> <<cols[i], FALSE>>]

PlayEntry(st, entry, g1, g2) ==
  PlayPiece(IF entry[2] THEN RotateApply(st) ELSE st, entry[1], g1, g2)

\* the grids of the State type (line 68): GRID_HEIGHT rows of GRID_WIDTH cells
Grids == [1..GRID_HEIGHT -> [1..GRID_WIDTH -> BOOLEAN]]

\* the states the pieces lo..hi of a plan lead to from the states given; the
\* last piece of the plan is followed by the pieces g1 and g2, the others
\* by Cyan
RECURSIVE PlayPlan(_, _, _, _, _, _)
PlayPlan(plan, lo, hi, states, g1, g2) ==
  IF lo > hi THEN states
  ELSE IF lo = hi
       THEN IF lo = Len(plan)
            THEN { PlayEntry(st, plan[lo], g1, g2) : st \in states }
            ELSE { PlayEntry(st, plan[lo], Cyan, Cyan) : st \in states }
       ELSE LET mid == (lo + hi) \div 2
                first == PlayPlan(plan, lo, mid, states, g1, g2)
            IN IF \A st \in first : st.grid \in Grids
               THEN PlayPlan(plan, mid + 1, hi, first, g1, g2)
               ELSE { }

\* the states at the end of a plan played from the constructed state
Played(plan, initial) ==
  UNION { PlayPlan(plan, 1, Len(plan), { initial }, g1, g2) :
            g1 \in Generated, g2 \in Generated }

\* what every specification of one subscription starts with
InitAside ==
  /\ threw = FALSE
  /\ last = Did(FALSE, 0, 0)
  /\ call = NoCall
  /\ s2 = s
  /\ threw2 = FALSE
  /\ rendered = << >>

Init ==
  /\ rolls = Rolls
  /\ initialState \in { State(EmptyGrid, Cyan, n) : n \in Generated }
  /\ s \in Played(Upright(OpeningColumns), initialState)
  /\ landings = 0
  /\ InitAside

\* one action.apply(s) of the scan: the new accumulator, or the error
Reduce(throws, result, landed, restart, gen) ==
  /\ ~threw
  /\ landed => landings < MaxLandings
  /\ IF throws
     THEN /\ threw' = TRUE
          /\ s' = s
          /\ last' = Did(FALSE, 0, 0)
          /\ landings' = landings
     ELSE /\ threw' = FALSE
          /\ s' = result
          /\ last' = Did(landed, IF landed THEN LandingLines(s) ELSE 0, gen)
          /\ landings' = IF restart THEN MaxLandings
                         ELSE IF landed THEN landings + 1 ELSE landings
  /\ UNCHANGED <<initialState, rolls, call, s2, threw2, rendered>>

Tick ==
  \E g \in Generated :
    Reduce(DescendThrows(s), TickApply(s, g), DescendLands(s), FALSE,
           IF DescendLands(s) THEN 2 ELSE 1)

MoveLeft ==
  Reduce(moveTetriminoLeftThrows(s), moveTetriminoLeft(s), FALSE, FALSE, 0)

MoveRight ==
  Reduce(moveTetriminoRightThrows(s), moveTetriminoRight(s), FALSE, FALSE, 0)

MoveDown ==
  \E g \in Generated :
    Reduce(DescendThrows(s), moveTetriminoDown(s, g), DescendLands(s), FALSE,
           IF DescendLands(s) THEN 2 ELSE 1)

Rotate ==
  Reduce(RotateThrows(s), RotateApply(s), FALSE, FALSE, 0)

InstantDrop ==
  \E g \in Generated :
    Reduce(instantDROPThrows(s), instantDROP(s, g), instantDROPLands(s), FALSE,
           IF instantDROPLands(s) THEN 2 ELSE 1)

Restart ==
  Reduce(FALSE, RestartApply(s, initialState), FALSE, TRUE, 0)

\* line 782 builds a new TogglePauseResume for every key press; its field
\* isPaused starts false (line 386)
TogglePauseResume ==
  LET isPaused == FALSE
  IN Reduce(FALSE, TogglePauseResumeApply(s, isPaused), FALSE, FALSE, 0)

Next ==
  \/ Tick
  \/ MoveLeft
  \/ MoveRight
  \/ MoveDown
  \/ Rotate
  \/ InstantDrop
  \/ Restart
  \/ TogglePauseResume

Spec == Init /\ [][Next]_vars

(***************************************************************************)
(* A game that already holds 800 points.  The opening is played from the   *)
(* constructed state with cyan pieces: an eight-row well cleared by two    *)
(* pieces in the spawn column (2 * 400 points), twelve rows that lack      *)
(* column 0 only, a row that lacks the spawn column only (two flat pieces  *)
(* and the foot of a piece in column 9) and pieces standing on it beside   *)
(* the spawn column.                                                       *)
(***************************************************************************)
LateOpening ==
  Upright(<< 0, 0, 1, 1, 2, 2, 3, 3, 5, 5, 6, 6, 7, 7, 8, 8, 9, 9, 4, 4 >>)
  \o Upright(<< 1, 1, 1, 2, 2, 2, 3, 3, 3, 4, 4, 4, 5, 5, 5,
                6, 6, 6, 7, 7, 7, 8, 8, 8, 9, 9, 9 >>)
  \o << <<3, TRUE>>, <<8, TRUE>>, <<9, FALSE>> >>
  \o Upright(<< 1, 2, 3, 8, 7, 6, 5 >>)

InitLateGame ==
  /\ rolls = Rolls
  /\ initialState \in { State(EmptyGrid, Cyan, n) : n \in Generated }
  /\ s \in Played(LateOpening, initialState)
  /\ landings = 0
  /\ InitAside

SpecLateGame == InitLateGame /\ [][Next]_vars

(***************************************************************************)
(* A game with two kinds of pieces, the cyan and the green one, from the   *)
(* state of InitLateGame, followed up to its first landing sequence.       *)
(***************************************************************************)
ShapeRolls == { <<0, 6>>, <<3, 6>> }

InitShapes ==
  /\ rolls = ShapeRolls
  /\ initialState \in { State(EmptyGrid, Cyan, n) : n \in Generated }
  /\ s \in Played(LateOpening, initialState)
  /\ landings = MaxLandings - 1
  /\ InitAside

SpecShapes == InitShapes /\ [][Next]_vars

(***************************************************************************)
(* The pure functions called directly, on every input within the bounds.   *)
(* call records the call: the function, its argument and its result.       *)
(***************************************************************************)
SmallGrids ==
  UNION { [1..h -> [1..w -> BOOLEAN]] : h \in 1..MaxRows, w \in 1..MaxCols }

InitCalls ==
  /\ rolls = Rolls
  /\ initialState = State(EmptyGrid, Cyan, Cyan)
  /\ s = initialState
  /\ landings = 0
  /\ InitAside

CallClearLines ==
  /\ call = NoCall
  /\ \E grid \in SmallGrids :
        call' = [fn |-> "clearLines", grid |-> grid,
                 result |-> clearLines(grid, goldTetrimino)]
  /\ UNCHANGED <<s, initialState, threw, last, landings, rolls, s2, threw2, rendered>>

\* the pieces rotateTetrimino is called with: the pieces of the catalogue as
\* generated, and every sequence of up to four blocks on a small board
SmallBlocks ==
  { Blk(x, y, "cyan") : x \in 0..(MaxCols - 1), y \in 0..(MaxRows - 1) }

SmallPieces ==
  UNION { [1..n -> SmallBlocks] : n \in 1..Len(shapes(0)) }
  \cup { generateANewTetrimino(i, 6) : i \in 0..6 }
  \cup { generateANewTetrimino(0, 0) }

\* the results of one, two, three and four calls in a row
CallRotate ==
  /\ call = NoCall
  /\ \E tetrimino \in SmallPieces :
        LET once == rotateTetrimino(tetrimino)
            twice == rotateTetrimino(once)
            thrice == rotateTetrimino(twice)
        IN call' = [fn |-> "rotateTetrimino", tetrimino |-> tetrimino,
                    result |-> << once, twice, thrice, rotateTetrimino(thrice) >>]
  /\ UNCHANGED <<s, initialState, threw, last, landings, rolls, s2, threw2, rendered>>

NextCalls ==
  \/ CallClearLines
  \/ CallRotate

SpecCalls == InitCalls /\ [][NextCalls]_vars

(***************************************************************************)
(* The two subscriptions of state$ (lines 804-809 and 1026-1034).  state$  *)
(* is a cold pipe: each subscribe() subscribes to actionForKey$ anew, so   *)
(* each subscription has its own interval timer (line 751), its own key    *)
(* listeners (lines 765-785) and its own scan accumulator seeded with      *)
(* initialState (line 800).  s and threw belong to the first subscription, *)
(* s2 and threw2 to the second; rendered is the sequence of frames handed  *)
(* to render (lines 807, 1032), each with the action that produced it.  A  *)
(* key press reaches the listener of the first subscription and then the   *)
(* listener of the second within one event dispatch; each handler builds   *)
(* its own action object and makes its own generateANewTetrimino calls.    *)
(* An apply that throws errors its own subscription only.                  *)
(***************************************************************************)
Keys ==
  { "moveTetriminoLeft", "moveTetriminoRight", "moveTetriminoDown", "Rotate",
    "instantDROP", "Restart", "TogglePauseResume" }

ApplyAction(fn, st, nextTetrimino, initial) ==
  CASE fn = "Tick" -> TickApply(st, nextTetrimino)
    [] fn = "moveTetriminoLeft" -> moveTetriminoLeft(st)
    [] fn = "moveTetriminoRight" -> moveTetriminoRight(st)
    [] fn = "moveTetriminoDown" -> moveTetriminoDown(st, nextTetrimino)
    [] fn = "Rotate" -> RotateApply(st)
    [] fn = "instantDROP" -> instantDROP(st, nextTetrimino)
    [] fn = "Restart" -> RestartApply(st, initial)
    [] fn = "TogglePauseResume" -> TogglePauseResumeApply(st, FALSE)

ActionThrows(fn, st) ==
  CASE fn = "Tick" -> DescendThrows(st)
    [] fn = "moveTetriminoLeft" -> moveTetriminoLeftThrows(st)
    [] fn = "moveTetriminoRight" -> moveTetriminoRightThrows(st)
    [] fn = "moveTetriminoDown" -> DescendThrows(st)
    [] fn = "Rotate" -> RotateThrows(st)
    [] fn = "instantDROP" -> instantDROPThrows(st)
    [] fn = "Restart" -> FALSE
    [] fn = "TogglePauseResume" -> FALSE

Frame(st, fn) == [state |-> st, action |-> fn]

\* one subscription's scan and subscriber on one action: the accumulator,
\* whether the subscription has errored, the frames handed to render
Emit(st, errored, fn, nextTetrimino) ==
  IF errored \/ ActionThrows(fn, st)
  THEN [state |-> st, threw |-> TRUE, frames |-> << >>]
  ELSE LET result == ApplyAction(fn, st, nextTetrimino, initialState)
       IN [state |-> result, threw |-> FALSE, frames |-> << Frame(result, fn) >>]

InitSubscriptions ==
  /\ rolls = ShapeRolls
  /\ initialState \in { State(EmptyGrid, c, n) : c \in Generated, n \in Generated }
  /\ s = initialState
  /\ landings = 0
  /\ InitAside

\* the interval timer of the first subscription fires
Tick1 ==
  /\ Len(rendered) < MaxFrames
  /\ \E g \in Generated :
        LET e == Emit(s, threw, "Tick", g)
        IN /\ s' = e.state
           /\ threw' = e.threw
           /\ rendered' = rendered \o e.frames
  /\ UNCHANGED <<s2, threw2, initialState, last, landings, rolls, call>>

\* the interval timer of the second subscription fires
Tick2 ==
  /\ Len(rendered) < MaxFrames
  /\ \E g \in Generated :
        LET e == Emit(s2, threw2, "Tick", g)
        IN /\ s2' = e.state
           /\ threw2' = e.threw
           /\ rendered' = rendered \o e.frames
  /\ UNCHANGED <<s, threw, initialState, last, landings, rolls, call>>

\* a key press, handled by both subscriptions in turn
KeyPress ==
  /\ Len(rendered) < MaxFrames
  /\ \E fn \in Keys : \E g1 \in Generated : \E g2 \in Generated :
        LET e1 == Emit(s, threw, fn, g1)
            e2 == Emit(s2, threw2, fn, g2)
        IN /\ s' = e1.state
           /\ threw' = e1.threw
           /\ s2' = e2.state
           /\ threw2' = e2.threw
           /\ rendered' = rendered \o e1.frames \o e2.frames
  /\ UNCHANGED <<initialState, last, landings, rolls, call>>

NextSubscriptions ==
  \/ Tick1
  \/ Tick2
  \/ KeyPress

SpecSubscriptions == InitSubscriptions /\ [][NextSubscriptions]_vars

(***************************************************************************)
(* The timer of tick$ (lines 747-762).  A period is a fraction of          *)
(* milliseconds <<numerator, denominator>>, since                          *)
(* TICK_RATE_MS * 0.9 ^ (level - 1) is not a whole number from level 5 on. *)
(***************************************************************************)
TICK_RATE_MS == 500

calculateTickRate(level) == << TICK_RATE_MS * 9 ^ (level - 1), 10 ^ (level - 1) >>

\* line 748: computed once, when main runs
initialTickRate == calculateTickRate(initialState.userLevel)

\* line 751: the period of interval(), the period of the Tick actions
tickPeriod == initialTickRate

SamePeriod(p, q) == p[1] * q[2] = q[1] * p[2]

(***************************************************************************)
(* Properties.                                                             *)
(***************************************************************************)
Blocks(t) == { t[i] : i \in 1..Len(t) }

Gameplay == Tick \/ MoveLeft \/ MoveRight \/ MoveDown \/ Rotate \/ InstantDrop

\* C1: in every reachable state the grid has GRID_HEIGHT rows and every
\* row has GRID_WIDTH cells.
C1_GridShape ==
  /\ Len(s.grid) = GRID_HEIGHT
  /\ \A r \in 1..Len(s.grid) : Len(s.grid[r]) = GRID_WIDTH

\* a landing has just cleared complete rows and the grid kept its shape
C1_Witness ==
  /\ last.landed /\ last.lines > 0
  /\ Len(s.grid) = GRID_HEIGHT
  /\ \E r \in 1..Len(s.grid) : \E c \in 1..Len(s.grid[r]) : s.grid[r][c]

\* C2: while gameOver is false every block of the current piece has a
\* column in 0 .. GRID_WIDTH - 1 and a row below GRID_HEIGHT.
C2_PieceInBounds ==
  ~s.gameOver =>
    \A b \in Blocks(s.currentTetrimino) :
       0 <= b.x /\ b.x < GRID_WIDTH /\ b.y < GRID_HEIGHT

\* in the game that goes on after a landing cleared rows, the piece has been
\* moved down, rotated to lie flat and moved against the left wall
C2_Witness ==
  /\ ~s.gameOver
  /\ s.userScore > 0
  /\ \E b \in Blocks(s.currentTetrimino) : b.x = 0
  /\ \E b \in Blocks(s.currentTetrimino) : b.x = 3
  /\ \A b \in Blocks(s.currentTetrimino) : b.y > 4

\* C3: a Tick applied to a paused state leaves the state as it was.
C3_PausedTickNoOp == [][(Tick /\ s.paused) => s' = s]_vars

\* C4: the pause-toggle action flips paused and changes no other field.
C4_ToggleFlips ==
  [][TogglePauseResume => s' = [s EXCEPT !.paused = ~s.paused]]_vars

\* C5: once gameOver is true, Tick, MoveLeft, MoveRight, MoveDown, Rotate
\* and InstantDrop leave piece, grid, score, level and gameOver unchanged.
C5_GameOverNoOp ==
  [][(s.gameOver /\ Gameplay) =>
       /\ s'.currentTetrimino = s.currentTetrimino
       /\ s'.grid = s.grid
       /\ s'.userScore = s.userScore
       /\ s'.userLevel = s.userLevel
       /\ s'.gameOver = s.gameOver]_vars

\* C6: gameOver, once true, stays true until a Restart is applied.
C6_GameOverTerminal == [][(s.gameOver /\ ~s'.gameOver) => Restart]_vars

\* C7: no action throws.
C7_NoThrow == ~threw

\* C8: InstantDrop on a non-paused state lands the piece in the same
\* transition: the dropped piece's cells are merged into the grid and the
\* previous nextTetrimino is the current piece.
C8_DropLands ==
  [][(InstantDrop /\ ~s.paused) =>
       /\ last'.landed
       /\ s'.currentTetrimino = s.nextTetrimino
       /\ s'.grid = clearLines(placeTetrimino(Up(DropLoop(s.currentTetrimino, s.grid)),
                                              s.grid), goldTetrimino).grid]_vars

\* C9: highScore never decreases, whatever the action.
C9_HighScoreMonotone == [][s'.highScore >= s.highScore]_vars

\* a Restart has kept the high score of a game that cleared rows
C9_Witness ==
  /\ s.highScore > 0
  /\ s.userScore = 0
  /\ s.grid = EmptyGrid
  /\ landings = MaxLandings

\* C10: Restart keeps highScore and gives every other field the value of a
\* fresh initial state, with the current and the next piece generated anew
\* at the spawn position.
C10_RestartFresh ==
  [][Restart =>
       /\ s'.highScore = s.highScore
       /\ s'.grid = EmptyGrid
       /\ s'.userScore = 0 /\ s'.userLevel = 1
       /\ ~s'.gameOver /\ ~s'.paused
       /\ s'.currentTetrimino \in Generated /\ s'.nextTetrimino \in Generated
       /\ last'.gen = 2]_vars

\* C11: in every reachable state the level is the one of the score the
\* state holds, bonus included: userLevel = floor(userScore / 1000) + 1.
C11_LevelFromScore == s.userLevel = (s.userScore \div 1000) + 1

\* C12: a landing that clears k rows (0 <= k <= 4) raises the score by
\* 100 * k plus the bonus, 200 for every block of the template that passes
\* the per-line check (its row is k - 1) when goldLineCleared is true; a
\* landing that clears no row, and every action that is neither a landing
\* nor a Restart, leaves the score as it was.
C12_ScoreDelta ==
  [][LET cl == clearLines(placeTetrimino(s.currentTetrimino, s.grid), goldTetrimino)
         k == cl.linesCleared
         passing == Cardinality({ i \in 1..Len(goldTetrimino) : goldTetrimino[i].y = k - 1 })
         bonus == IF cl.goldLineCleared THEN 200 * passing ELSE 0
     IN IF last'.landed
        THEN /\ k \in 0..4
             /\ s'.userScore = s.userScore + 100 * k + bonus
             /\ k = 0 => s'.userScore = s.userScore
        ELSE Restart \/ s'.userScore = s.userScore]_vars

\* a landing has cleared one row of the game that held 800 points: 100 for
\* the row and 200 for the block of the template
C12_Witness ==
  /\ last.landed /\ last.lines = 1
  /\ s.userScore = 1100

\* C13: in a run that generates no gold piece, a landing adds exactly 100
\* points for every row it clears and no bonus.
C13_BonusOnlyForGold ==
  [][(last'.landed /\ \A r \in rolls : r[2] > 5) =>
       s'.userScore = s.userScore + 100 * last'.lines]_vars

\* C14: MoveLeft and MoveRight return their input when the piece shifted
\* by one column would have a block in a column < 0 or >= GRID_WIDTH or on
\* an occupied cell; otherwise they change the current piece only, every
\* block one column over in its row.
C14_MoveRejects ==
  [][\A dx \in { -1, 1 } :
       ((dx = -1 /\ MoveLeft) \/ (dx = 1 /\ MoveRight)) =>
         LET moved == [i \in 1..Len(s.currentTetrimino) |->
                         [x |-> s.currentTetrimino[i].x + dx,
                          y |-> s.currentTetrimino[i].y,
                          color |-> s.currentTetrimino[i].color]]
             invalid == \E b \in Blocks(moved) :
                           \/ b.x < 0
                           \/ b.x >= GRID_WIDTH
                           \/ /\ b.y >= 0 /\ b.y < GRID_HEIGHT
                              /\ s.grid[b.y + 1][b.x + 1]
         IN /\ ~threw'
            /\ IF invalid THEN s' = s
               ELSE s' = [s EXCEPT !.currentTetrimino = moved]]_vars

\* the piece has been moved into the last column, upright, and down between
\* the wall and the occupied cells of column 8: MoveRight and MoveLeft are
\* both rejected there
C14_Witness ==
  /\ ~threw /\ ~s.gameOver
  /\ \A b \in Blocks(s.currentTetrimino) : b.x = GRID_WIDTH - 1
  /\ \E b \in Blocks(s.currentTetrimino) : s.grid[b.y + 1][b.x]

\* C15: in every reachable state in which the rotated piece would have a
\* block in a column outside 0 .. GRID_WIDTH - 1, at a row >= GRID_HEIGHT
\* or on an occupied cell, Rotate returns a state equal to its input.
C15_RotateRejects ==
  [][Rotate =>
       LET rotated == rotateTetrimino(s.currentTetrimino)
           invalid == \E b \in Blocks(rotated) :
                         \/ b.x < 0
                         \/ b.x >= GRID_WIDTH
                         \/ b.y >= GRID_HEIGHT
                         \/ /\ b.y >= 0 /\ s.grid[b.y + 1][b.x + 1]
       IN invalid => (~threw' /\ s' = s)]_vars

\* C16: for a rectangular grid with k fully occupied rows, clearLines
\* returns a grid with as many rows, linesCleared = k, k empty rows on top
\* and, below them, the rows that are not fully occupied, in their order.
C16_ClearLinesConserves ==
  call.fn = "clearLines" =>
    LET grid == call.grid
        result == call.result
        full == { i \in 1..Len(grid) : \A c \in 1..Len(grid[i]) : grid[i][c] }
        k == Cardinality(full)
    IN /\ Len(result.grid) = Len(grid)
       /\ result.linesCleared = k
       /\ \A i \in 1..k :
            /\ Len(result.grid[i]) = Len(grid[1])
            /\ \A c \in 1..Len(result.grid[i]) : ~result.grid[i][c]
       /\ \A i \in (1..Len(grid)) \ full :
            result.grid[k + Cardinality({ j \in (1..i) \ full : TRUE })] = grid[i]

\* clearLines was called with a grid that has a complete row below a row
\* that is neither complete nor empty
C16_Witness ==
  /\ call.fn = "clearLines"
  /\ call.result.linesCleared >= 1
  /\ \E i \in 1..Len(call.grid) : \E j \in 1..Len(call.grid) :
        /\ i < j
        /\ \A c \in 1..Len(call.grid[j]) : call.grid[j][c]
        /\ \E c \in 1..Len(call.grid[i]) : call.grid[i][c]
        /\ \E c \in 1..Len(call.grid[i]) : ~call.grid[i][c]
        /\ call.result.grid[i + 1] = call.grid[i]

\* C17: on a landing by Tick or MoveDown that does not end the game, the
\* piece that was nextTetrimino before the landing becomes the current
\* piece, as generated (at its spawn position), and a newly generated piece
\* becomes nextTetrimino.
C17_LandingPromotesNext ==
  [][((Tick \/ MoveDown) /\ last'.landed /\ ~s'.gameOver) =>
       /\ s'.currentTetrimino = s.nextTetrimino
       /\ s'.currentTetrimino \in Generated
       /\ s'.nextTetrimino \in Generated]_vars

\* a landing that did not end the game has put a green piece in play with a
\* cyan piece to follow
C17_Witness ==
  /\ last.landed
  /\ ~s.gameOver
  /\ ~threw
  /\ landings = MaxLandings
  /\ s.currentTetrimino = generateANewTetrimino(3, 6)
  /\ s.nextTetrimino = Cyan

\* C18: every state handed to the renderer is the result of applying the
\* latest action to the state handed to the renderer before it: the frames
\* are the successive states of one reducer, and no second copy of the game
\* state is rendered.
C18_SingleReducer ==
  \A i \in 2..Len(rendered) :
    \E g \in Generated :
      rendered[i].state =
        ApplyAction(rendered[i].action, rendered[i - 1].state, g, initialState)

\* C19: the period of the Tick timer follows the level: in every state the
\* period in effect is the one calculateTickRate gives for the level of the
\* state.
C19_TickPeriodFollowsLevel ==
  SamePeriod(tickPeriod, calculateTickRate(s.userLevel))

\* C20: in every landing, also one that sets gameOver, the grid of the
\* resulting state is the prior grid with every cell of the landed piece
\* occupied and all complete rows then cleared.
C20_LandingKeepsPiece ==
  [][last'.landed =>
       s'.grid = clearLines(placeTetrimino(s.currentTetrimino, s.grid), goldTetrimino).grid]_vars

\* C21: a landing in a state that is not paused sets gameOver exactly when
\* the promoted piece, the nextTetrimino of before at its spawn position,
\* lies on an occupied cell of the grid that results from merging the landed
\* piece and clearing the complete rows; otherwise gameOver is false after it.
C21_GameOverIffOverlap ==
  [][last'.landed =>
       LET merged == clearLines(placeTetrimino(s.currentTetrimino, s.grid), goldTetrimino).grid
           promoted == s.nextTetrimino
           overlaps == \E b \in Blocks(promoted) :
                         /\ b.y \in 0..(GRID_HEIGHT - 1)
                         /\ b.x \in 0..(GRID_WIDTH - 1)
                         /\ merged[b.y + 1][b.x + 1]
       IN /\ ~s.paused
          /\ promoted \in Generated
          /\ s'.gameOver = overlaps]_vars

\* a landing has ended the game: the piece lies across the spawn column
C21_Witness ==
  /\ last.landed
  /\ s.gameOver
  /\ ~threw
  /\ \E b \in Blocks(s.currentTetrimino) : b.x = xOffset /\ b.y \in 0..3

\* C22: MoveDown and Tick are the same transition: applied to the same
\* reachable state they give states that agree on grid, current piece,
\* score, level, highScore, gameOver and paused (nextTetrimino is generated
\* anew by each), when the piece descends and when it lands.
C22_MoveDownIsTick ==
  [][LET agree(a, b) ==
           /\ a.grid = b.grid
           /\ a.currentTetrimino = b.currentTetrimino
           /\ a.userScore = b.userScore
           /\ a.userLevel = b.userLevel
           /\ a.highScore = b.highScore
           /\ a.gameOver = b.gameOver
           /\ a.paused = b.paused
     IN /\ (Tick /\ ~threw') => \A g \in Generated : agree(s', moveTetriminoDown(s, g))
        /\ (MoveDown /\ ~threw') => \A g \in Generated : agree(s', TickApply(s, g))]_vars

\* a piece has landed in the well and cleared four rows
C22_Witness ==
  /\ last.landed
  /\ last.lines = 4
  /\ ~s.gameOver
  /\ ~threw

\* C23: an accepted Rotate replaces each block (x, y) of the current piece
\* by (pivot.x - (y - pivot.y), pivot.y + (x - pivot.x)), the pivot being the
\* first block: the pivot block keeps its position, every block its colour,
\* the piece its number of blocks, and every other field of the state is
\* unchanged.
C23_AcceptedRotate ==
  [][LET cur == s.currentTetrimino
         pivot == cur[1]
         turnedX(b) == pivot.x - (b.y - pivot.y)
         turnedY(b) == pivot.y + (b.x - pivot.x)
         accepted == \A b \in Blocks(cur) :
                       /\ turnedX(b) \in 0..(GRID_WIDTH - 1)
                       /\ turnedY(b) \in 0..(GRID_HEIGHT - 1)
                       /\ ~s.grid[turnedY(b) + 1][turnedX(b) + 1]
     IN (Rotate /\ ~threw' /\ accepted) =>
          /\ Len(s'.currentTetrimino) = Len(cur)
          /\ \A i \in 1..Len(cur) :
               /\ s'.currentTetrimino[i].x = turnedX(cur[i])
               /\ s'.currentTetrimino[i].y = turnedY(cur[i])
               /\ s'.currentTetrimino[i].color = cur[i].color
          /\ s'.currentTetrimino[1] = pivot
          /\ s' = [s EXCEPT !.currentTetrimino = s'.currentTetrimino]]_vars

\* a green piece stands turned by a quarter: its second block is below its
\* first block, not beside it
C23_Witness ==
  /\ ~threw
  /\ s.currentTetrimino[1].color = "green"
  /\ s.currentTetrimino[2].x = s.currentTetrimino[1].x
  /\ s.currentTetrimino[2].y = s.currentTetrimino[1].y + 1

\* C24: in every reachable state no block of the current piece lies on an
\* occupied cell of the grid.
C24_PieceOffLandedBlocks ==
  \A b \in Blocks(s.currentTetrimino) :
    (b.y \in 0..(GRID_HEIGHT - 1) /\ b.x \in 0..(GRID_WIDTH - 1)) => ~s.grid[b.y + 1][b.x + 1]

\* after a landing that ended the game and a Restart, or after two landings,
\* the piece in play has an occupied cell right below one of its blocks
C24_Witness ==
  /\ ~threw
  /\ landings = MaxLandings
  /\ ~s.gameOver
  /\ \E b \in Blocks(s.currentTetrimino) :
       /\ b.y + 1 \in 0..(GRID_HEIGHT - 1)
       /\ b.x \in 0..(GRID_WIDTH - 1)
       /\ s.grid[b.y + 2][b.x + 1]

\* C25: no reachable state has a fully occupied row in its grid.
C25_NoCompleteRow ==
  \A r \in 1..Len(s.grid) : \E c \in 1..Len(s.grid[r]) : ~s.grid[r][c]

\* a landing has just cleared rows and stored the grid: as many empty rows
\* on top as rows cleared, landed blocks below
C25_Witness ==
  /\ last.landed
  /\ last.lines >= 1
  /\ ~s.gameOver
  /\ \A r \in 1..last.lines : \A c \in 1..GRID_WIDTH : ~s.grid[r][c]
  /\ \E c \in 1..GRID_WIDTH : s.grid[GRID_HEIGHT][c]

\* C26: in every reachable state userScore <= highScore, and userScore is a
\* non-negative multiple of 100.
C26_ScoreBelowHighScore ==
  /\ s.userScore <= s.highScore
  /\ s.userScore >= 0
  /\ s.userScore % 100 = 0

\* the game was restarted after a landing with a bonus: no points, and the
\* high score of the game before
C26_Witness ==
  /\ s.userScore = 0
  /\ s.highScore = 1100

\* C27: while paused no piece lands: every action other than Restart applied
\* to a paused state leaves grid, userScore, userLevel, highScore and
\* gameOver unchanged.
C27_PausedFrame ==
  [][(s.paused /\ ~Restart) =>
       /\ s'.grid = s.grid
       /\ s'.userScore = s.userScore
       /\ s'.userLevel = s.userLevel
       /\ s'.highScore = s.highScore
       /\ s'.gameOver = s.gameOver
       /\ ~last'.landed]_vars

\* a descent was applied to a paused state and the piece in play cannot
\* descend further
C27_Witness ==
  /\ s.paused
  /\ ~threw
  /\ last.gen = 1
  /\ isCollisionDetected(Down(s.currentTetrimino), s.grid)

\* C28: InstantDrop always terminates: in every reachable state its descent
\* loop meets a collision after at most GRID_HEIGHT iterations, without an
\* error, and the piece it returns has the columns of before, rows that are
\* not above the rows of before, and cannot descend one row further.
C28_DropTerminates ==
  [][InstantDrop =>
       LET cur == s.currentTetrimino
           collides(k) == \E b \in Blocks(cur) :
                            \/ b.y + k >= GRID_HEIGHT
                            \/ /\ b.y + k >= 0
                               /\ b.x \in 0..(GRID_WIDTH - 1)
                               /\ s.grid[b.y + k + 1][b.x + 1]
           d == s'.currentTetrimino[1].y - cur[1].y
       IN /\ ~threw'
          /\ d \in 0..(GRID_HEIGHT - 1)
          /\ \A j \in 0..d : ~collides(j)
          /\ collides(d + 1)
          /\ Len(s'.currentTetrimino) = Len(cur)
          /\ \A i \in 1..Len(cur) :
               /\ s'.currentTetrimino[i].x = cur[i].x
               /\ s'.currentTetrimino[i].y = cur[i].y + d
          /\ isCollisionDetected(Down(s'.currentTetrimino), s'.grid)]_vars

\* a piece turned flat rests across the well after a descent that did not
\* land it
C28_Witness ==
  /\ ~threw
  /\ last.gen = 1
  /\ ~last.landed
  /\ s.currentTetrimino[2].y = s.currentTetrimino[1].y
  /\ \E b \in Blocks(s.currentTetrimino) : b.y >= 3
  /\ isCollisionDetected(Down(s.currentTetrimino), s.grid)

\* C29: rotation is a quarter turn about the first block: rotateTetrimino
\* applied four times in a row returns the original piece, block for block
\* in the same order, and applied once or twice to a piece with more than
\* one distinct cell it does not.
C29_QuarterTurn ==
  call.fn = "rotateTetrimino" =>
    LET tetrimino == call.tetrimino
        cells == { <<b.x, b.y>> : b \in Blocks(tetrimino) }
    IN /\ call.result[4] = tetrimino
       /\ Cardinality(cells) > 1 =>
            /\ call.result[1] # tetrimino
            /\ call.result[2] # tetrimino

\* rotateTetrimino was called four times in a row on the green piece as
\* generated
C29_Witness ==
  /\ call.fn = "rotateTetrimino"
  /\ call.tetrimino = generateANewTetrimino(3, 6)
  /\ call.result[1] # call.tetrimino
  /\ call.result[3] # call.result[1]
  /\ call.result[4] = call.tetrimino

====
